---- MODULE Spec2Model ----
(***************************************************************************)
(* A model of kyuubi-submit.py: KyuubiBatchSubmitter.submit_batch (path    *)
(* classification, request building, JSON or multipart transport),         *)
(* monitor_job (status polling loop), print_all_logs (log pagination) and  *)
(* the exit-code mapping of main.                                          *)
(*                                                                         *)
(* Python strings that the code takes apart (paths, comma-separated lists) *)
(* are sequences of one-character strings.  Strings that the code only     *)
(* compares (server states, diagnostics) are TLA+ strings.                 *)
(***************************************************************************)
EXTENDS Integers, Sequences, FiniteSets, TLC

\* ------------------------------------------------------------------------
\* Bounds of the model
\* ------------------------------------------------------------------------
\* Cap on the number of status GETs of one monitor_job call.
MaxPolls == 3
\* Cap on the number of log GETs of one monitor_job call.
MaxFetches == 3
\* Longest pyFiles / jars list given in list form.
MaxAux == 2
\* Cap on the number of is_local_file calls made for one path.
MaxCalls == 3

\* ------------------------------------------------------------------------
\* Python / JSON values
\* ------------------------------------------------------------------------
\* Python None (also what JSON null decodes to).
PyNone == "<None>"
\* A key that is missing from a JSON object.
Absent == "<absent>"

\* dict.get(key, default): the default only replaces a missing key; a key
\* that is present with JSON null yields None.
Get(value, default) == IF value = Absent THEN default ELSE value

\* monitor_job's `status` when it holds no status object (None).
NoStatus == [none |-> TRUE]
\* No notification logged yet.
NoNote == [state |-> PyNone, app |-> PyNone]

\* Python truthiness of a str-or-None value.
Truthy(v) == v # "" /\ v # PyNone

\* ------------------------------------------------------------------------
\* Python strings as sequences of characters
\* ------------------------------------------------------------------------
UpperChars ==
    <<"A", "B", "C", "D", "E", "F", "G", "H", "I", "J", "K", "L", "M",
      "N", "O", "P", "Q", "R", "S", "T", "U", "V", "W", "X", "Y", "Z">>
LowerChars ==
    <<"a", "b", "c", "d", "e", "f", "g", "h", "i", "j", "k", "l", "m",
      "n", "o", "p", "q", "r", "s", "t", "u", "v", "w", "x", "y", "z">>
Digits == {"0", "1", "2", "3", "4", "5", "6", "7", "8", "9"}
Range(f) == {f[i] : i \in DOMAIN f}
IsAlpha(c) == c \in Range(UpperChars) \cup Range(LowerChars)
IsWordChar(c) == IsAlpha(c) \/ c \in Digits \/ c = "_"

\* str.lower()
LowerChar(c) ==
    IF c \in Range(UpperChars)
    THEN LowerChars[CHOOSE i \in DOMAIN UpperChars : UpperChars[i] = c]
    ELSE c
Lower(s) == [i \in DOMAIN s |-> LowerChar(s[i])]

\* str.find(c, from): the first position >= from holding c, 0 if there is none
\* (positions count from 1).
FindFrom(s, c, from) ==
    IF \E i \in from..Len(s) : s[i] = c
    THEN CHOOSE i \in from..Len(s) : s[i] = c /\ \A j \in from..(i - 1) : s[j] # c
    ELSE 0
Find(s, c) == FindFrom(s, c, 1)

\* str.rfind(c): the last position holding c, 0 if there is none.
RFind(s, c) ==
    IF \E i \in DOMAIN s : s[i] = c
    THEN CHOOSE i \in DOMAIN s : s[i] = c /\ \A j \in (i + 1)..Len(s) : s[j] # c
    ELSE 0

DropFirst(s, n) == SubSeq(s, n + 1, Len(s))
StartsWith(s, prefix) ==
    Len(s) >= Len(prefix) /\ SubSeq(s, 1, Len(prefix)) = prefix

\* str.lstrip(), str.rstrip(), str.strip() for the blank.
RECURSIVE LStrip(_)
LStrip(s) == IF s # <<>> /\ Head(s) = " " THEN LStrip(Tail(s)) ELSE s
RECURSIVE RStrip(_)
RStrip(s) ==
    IF s # <<>> /\ s[Len(s)] = " " THEN RStrip(SubSeq(s, 1, Len(s) - 1)) ELSE s
Strip(s) == RStrip(LStrip(s))

\* str.split(','): the pieces between the commas (one piece if there is none).
RECURSIVE Split(_, _)
Split(s, sep) ==
    LET i == Find(s, sep)
    IN  IF i = 0 THEN <<s>>
        ELSE <<SubSeq(s, 1, i - 1)>> \o Split(DropFirst(s, i), sep)

\* [f.strip() for f in pieces if f.strip()]
RECURSIVE StrippedNonEmpty(_)
StrippedNonEmpty(pieces) ==
    IF pieces = <<>> THEN <<>>
    ELSE (IF Strip(Head(pieces)) # <<>> THEN <<Strip(Head(pieces))>> ELSE <<>>)
         \o StrippedNonEmpty(Tail(pieces))

\* [f for f in items if f]
RECURSIVE NonEmpty(_)
NonEmpty(items) ==
    IF items = <<>> THEN <<>>
    ELSE (IF Head(items) # <<>> THEN <<Head(items)>> ELSE <<>>)
         \o NonEmpty(Tail(items))

\* ------------------------------------------------------------------------
\* urllib.parse.urlparse(path).scheme
\* ------------------------------------------------------------------------
SchemeChars ==
    Range(UpperChars) \cup Range(LowerChars) \cup Digits \cup {"+", "-", "."}

\* urlsplit: leading blanks are dropped; the text before the first ':' is the
\* scheme, lower-cased, if it is not empty, starts with a letter and holds
\* scheme characters only.
UrlScheme(path) ==
    LET url == LStrip(path)
        i == Find(url, ":")
    IN  IF /\ i > 1
           /\ IsAlpha(url[1])
           /\ \A k \in 1..(i - 1) : url[k] \in SchemeChars
        THEN Lower(SubSeq(url, 1, i - 1))
        ELSE <<>>

\* urlparse(path).path for a path with a scheme: what follows the scheme
\* and, after "//", the network location; query and fragment cut off.
UrlPath(path) ==
    LET url == LStrip(path)
        rest == DropFirst(url, Len(UrlScheme(path)) + 1)
        ends(t) == {i \in DOMAIN t : t[i] \in {"?", "#"}}
        cut(t) == IF ends(t) = {} THEN t
                  ELSE SubSeq(t, 1, (CHOOSE i \in ends(t) : \A j \in ends(t) : i <= j) - 1)
        afterNetloc ==
            IF StartsWith(rest, <<"/", "/">>)
            THEN LET r == DropFirst(rest, 2)
                     stops == {i \in DOMAIN r : r[i] \in {"/", "?", "#"}}
                 IN  IF stops = {} THEN <<>>
                     ELSE DropFirst(r, (CHOOSE i \in stops : \A j \in stops : i <= j) - 1)
            ELSE rest
    IN  cut(afterNetloc)

\* ------------------------------------------------------------------------
\* os.path
\* ------------------------------------------------------------------------
\* The home directory and the environment of the process.
Home == <<"/", "h">>
EnvNames == {<<"H">>}
EnvValue(name) == Home

\* posixpath.expandvars: $NAME and ${NAME} are replaced when NAME is set and
\* left as they are otherwise.
RECURSIVE ExpandVars(_)
ExpandVars(s) ==
    LET i == Find(s, "$")
    IN  IF i = 0 THEN s
        ELSE
          LET before == SubSeq(s, 1, i - 1)
              after == DropFirst(s, i)
              braced == after # <<>> /\ Head(after) = "{"
              close == Find(after, "}")
              wordEnd ==
                  IF \E k \in DOMAIN after : ~IsWordChar(after[k])
                  THEN (CHOOSE k \in DOMAIN after :
                            /\ ~IsWordChar(after[k])
                            /\ \A j \in 1..(k - 1) : IsWordChar(after[j])) - 1
                  ELSE Len(after)
              name == IF braced THEN SubSeq(after, 2, close - 1)
                      ELSE SubSeq(after, 1, wordEnd)
              used == IF braced THEN close ELSE wordEnd
          IN  IF (braced /\ close = 0) \/ (~braced /\ wordEnd = 0)
              THEN before \o <<"$">> \o ExpandVars(after)
              ELSE IF name \in EnvNames
              THEN before \o EnvValue(name) \o ExpandVars(DropFirst(after, used))
              ELSE before \o <<"$">> \o SubSeq(after, 1, used)
                   \o ExpandVars(DropFirst(after, used))

\* posixpath.expanduser: a leading "~" alone or before "/" is the home
\* directory; "~name" of an unknown user is left as it is.
ExpandUser(s) ==
    IF s = <<>> \/ Head(s) # "~" THEN s
    ELSE LET i == FindFrom(s, "/", 2)
             e == IF i = 0 THEN Len(s) + 1 ELSE i
         IN  IF e = 2
             THEN LET joined == Home \o DropFirst(s, 1)
                  IN  IF joined = <<>> THEN <<"/">> ELSE joined
             ELSE s

\* KyuubiBatchSubmitter.expand_path
ExpandPath(path) == ExpandUser(ExpandVars(path))

\* os.path.basename
Basename(path) == DropFirst(path, RFind(path, "/"))

\* os.path.splitext(path)[1]: from the last dot of the last component, unless
\* only dots precede it there.
SplitExt(path) ==
    LET sep == RFind(path, "/")
        dot == RFind(path, ".")
    IN  IF dot > sep /\ \E k \in (sep + 1)..(dot - 1) : path[k] # "."
        THEN DropFirst(path, dot - 1)
        ELSE <<>>

\* os.path.isfile against the files that exist now.
IsFile(files, path) == path \in files

\* ------------------------------------------------------------------------
\* Path classification
\* ------------------------------------------------------------------------
REMOTE_SCHEMES ==
    { <<"h", "d", "f", "s">>, <<"s", "3">>, <<"s", "3", "a">>, <<"s", "3", "n">>,
      <<"g", "s">>, <<"w", "a", "s", "b">>, <<"w", "a", "s", "b", "s">>,
      <<"a", "b", "f", "s">>, <<"a", "b", "f", "s", "s">>,
      <<"h", "t", "t", "p">>, <<"h", "t", "t", "p", "s">>, <<"f", "t", "p">>,
      <<"l", "o", "c", "a", "l">> }

PYTHON_EXTENSIONS ==
    { <<".", "p", "y">>, <<".", "z", "i", "p">>, <<".", "e", "g", "g">> }

\* Mutant: the filesystem is asked first, the scheme only for a path that is
\* no file.
IsLocalFile_fs_first(p, fs) ==
    IF p = <<>> THEN FALSE
    ELSE IsFile(fs, ExpandPath(p))

\* KyuubiBatchSubmitter.is_local_file
IsLocalFile(p, fs) ==
    IF p = <<>> THEN FALSE
    ELSE LET scheme == UrlScheme(p)
         IN  IF scheme # <<>> /\ Lower(scheme) \in REMOTE_SCHEMES THEN FALSE
             ELSE IF scheme # <<>> /\ Len(scheme) > 1 THEN FALSE
             ELSE IsFile(fs, ExpandPath(p))

\* KyuubiBatchSubmitter.get_file_extension
GetFileExtension(path) ==
    Lower(SplitExt(IF UrlScheme(path) # <<>> THEN UrlPath(path) ELSE path))

\* KyuubiBatchSubmitter.is_python_resource
IsPythonResource(res) == GetFileExtension(res) \in PYTHON_EXTENSIONS

\* ------------------------------------------------------------------------
\* The inputs of submit_batch and the local filesystem
\* ------------------------------------------------------------------------
\* a.py
P_a_py == <<"a", ".", "p", "y">>
\* " a.py": the same file, to be trimmed
P_sp_a_py == <<" ", "a", ".", "p", "y">>
\* ~/d.jar
P_home_jar == <<"~", "/", "d", ".", "j", "a", "r">>
\* /h/d.jar: what ~/d.jar and $H/d.jar expand to
P_h_d_jar == <<"/", "h", "/", "d", ".", "j", "a", "r">>
\* s3a://b/c.jar
P_s3a_jar == <<"s", "3", "a", ":", "/", "/", "b", "/", "c", ".", "j", "a", "r">>
\* s3://u.py
P_s3_py == <<"s", "3", ":", "/", "/", "u", ".", "p", "y">>
\* s3a://b/m.py
P_s3a_py == <<"s", "3", "a", ":", "/", "/", "b", "/", "m", ".", "p", "y">>
\* hdfs:/e.jar
P_hdfs_jar == <<"h", "d", "f", "s", ":", "/", "e", ".", "j", "a", "r">>
\* a blank entry
P_blank == <<" ">>
\* "a.py, ,s3://u.py"
PyText ==
    <<"a", ".", "p", "y", ",", " ", ",", "s", "3", ":", "/", "/", "u", ".", "p", "y">>
\* "$H/d.jar,hdfs:/e.jar,"
JarText ==
    <<"$", "H", "/", "d", ".", "j", "a", "r", ",",
      "h", "d", "f", "s", ":", "/", "e", ".", "j", "a", "r", ",">>

\* The regular files that may exist, by expanded path.
Files == {P_a_py, P_h_d_jar}

Resources == {P_a_py, P_home_jar, P_s3a_jar}
PyEntries == {P_sp_a_py, P_s3_py}
JarEntries == {P_home_jar, P_blank}

SeqsUpTo(S, n) == UNION {[1..k -> S] : k \in 0..n}

\* A pyFiles / jars argument: None, a list, or a comma-separated string.
NoAux == [kind |-> "none", val |-> <<>>]
AuxList(items) == [kind |-> "list", val |-> items]
AuxStr(text) == [kind |-> "str", val |-> text]
PyInputs ==
    {NoAux, AuxStr(PyText)} \cup {AuxList(l) : l \in SeqsUpTo(PyEntries, MaxAux)}
JarInputs ==
    {NoAux, AuxStr(JarText)} \cup {AuxList(l) : l \in SeqsUpTo(JarEntries, MaxAux)}

\* ------------------------------------------------------------------------
\* The conf argument and parse_conf
\* ------------------------------------------------------------------------
\* A Python dict with string keys: a function from keys to values.
EmptyDict == [k \in {} |-> <<>>]
DictSet(d, key, value) ==
    [k \in DOMAIN d \cup {key} |-> IF k = key THEN value ELSE d[k]]

\* The loop of parse_conf: an item without '=' is skipped; a key that comes
\* again replaces the earlier value.
RECURSIVE ParseItems(_, _)
ParseItems(items, conf_dict) ==
    IF items = <<>> THEN conf_dict
    ELSE LET item == Strip(Head(items))
             i == Find(item, "=")
         IN  ParseItems(Tail(items),
                        IF i = 0 THEN conf_dict
                        ELSE DictSet(conf_dict, Strip(SubSeq(item, 1, i - 1)),
                                     Strip(DropFirst(item, i))))

\* KyuubiBatchSubmitter.parse_conf
ParseConf(conf_string) ==
    IF conf_string = <<>> THEN EmptyDict
    ELSE ParseItems(Split(conf_string, ","), EmptyDict)

\* "spark.submit.deployMode" and "cluster"
DeployModeKey ==
    <<"s", "p", "a", "r", "k", ".", "s", "u", "b", "m", "i", "t", ".",
      "d", "e", "p", "l", "o", "y", "M", "o", "d", "e">>
Cluster == <<"c", "l", "u", "s", "t", "e", "r">>
Client == <<"c", "l", "i", "e", "n", "t">>

\* A conf argument: None / '' / {}, a string, or a mapping.  `pairs` lists
\* the key/value pairs the caller supplies with it, in the order supplied.
NoConf == [kind |-> "none", val |-> <<>>, pairs |-> <<>>]
\* "a=1"
ConfPlain ==
    [kind |-> "str", val |-> <<"a", "=", "1">>,
     pairs |-> << <<<<"a">>, <<"1">>>> >>]
\* "spark.submit.deployMode=client, a = 1 ,b,a=2=3"
ConfOverride ==
    [kind |-> "str",
     val |-> DeployModeKey \o
             <<"=", "c", "l", "i", "e", "n", "t", ",", " ", "a", " ", "=",
               " ", "1", " ", ",", "b", ",", "a", "=", "2", "=", "3">>,
     pairs |-> << <<DeployModeKey, Client>>, <<<<"a">>, <<"1">>>>,
                  <<<<"a">>, <<"2", "=", "3">>>> >>]
\* {"a": "1"}
ConfDictPlain ==
    [kind |-> "dict", val |-> DictSet(EmptyDict, <<"a">>, <<"1">>),
     pairs |-> << <<<<"a">>, <<"1">>>> >>]
\* {"spark.submit.deployMode": "client", "b": "2"}
ConfDictOverride ==
    [kind |-> "dict",
     val |-> DictSet(DictSet(EmptyDict, DeployModeKey, Client), <<"b">>, <<"2">>),
     pairs |-> << <<DeployModeKey, Client>>, <<<<"b">>, <<"2">>>> >>]
ConfInputs == {NoConf, ConfPlain, ConfOverride, ConfDictPlain, ConfDictOverride}

\* The classname argument: None, '' or a class name.
ClassNames == {PyNone, "", "com.x.Main"}

\* The answers of the server to POST /api/v1/batches.
PostResponses ==
    {[code |-> 200, id |-> "b1"], [code |-> 201, id |-> "b1"],
     [code |-> 200, id |-> Absent], [code |-> 500, id |-> Absent]}
NoResponse == [code |-> 0, id |-> Absent]

\* ------------------------------------------------------------------------
\* The server's answers to GET /api/v1/batches/{id}
\* ------------------------------------------------------------------------
\* Outer states the server may report (the key may also be missing).
JsonStates == {Absent, "RUNNING", "FINISHED", "ERROR", "CANCELLED"}
\* Inner application states: missing, null, or a string.
JsonAppStates ==
    {Absent, PyNone, "SUCCESS", "SUCCEEDED", "FINISHED",
     "FAILED", "ERROR", "CANCELLED", "KILLED"}
\* Diagnostic texts: missing, or a text.
JsonDiags == {Absent, "oom", "lost executor"}

StatusBodies ==
    [state : JsonStates, appState : JsonAppStates, appDiagnostic : JsonDiags]

\* Numbers of rows and totals a localLog response may carry.
RowCounts == {0, 500, 1000}
Totals == {0, 500, 1000, 2500}

\* size = 1000 in print_all_logs: the window asked of the server.
size == 1000

\* No localLog response is being handled.
NoLogData == [rows |-> -1, total |-> -1]

VARIABLES
    pc,                 \* position of the invocation
    resource,           \* submit_batch's argument
    py_files,           \* submit_batch's argument
    jars,               \* submit_batch's argument
    classname,          \* submit_batch's argument
    conf,               \* submit_batch's argument
    files,              \* the regular files that exist now
    resource_is_local,  \* submit_batch's local
    resource_expanded,  \* submit_batch's local (<<>> for None)
    py_files_list,      \* submit_batch's local
    jars_list,          \* submit_batch's local
    idx,                \* position of the running for loop
    local_py_files,     \* submit_batch's local: (path, expanded path) pairs
    remote_py_files,    \* submit_batch's local
    local_jars,         \* submit_batch's local
    remote_jars,        \* submit_batch's local
    has_local_files,    \* submit_batch's local
    batch_request,      \* submit_batch's local
    opened_files,       \* _submit_multipart's local: the paths opened
    open_handles,       \* positions in opened_files whose handle is open
    raised,             \* an exception is propagating out of the submission
    request,            \* the POST sent to /api/v1/batches
    posts,              \* POSTs issued so far
    response,           \* the response to the POST
    batch_id,           \* submit_batch's return value
    class_log,          \* history: the is_local_file calls and their answers
    call_path,          \* is_local_file's argument, when it is called alone
    answers,            \* history of those calls: the answer, and whether a
                        \* regular file existed at the expanded path
    show_logs,          \* monitor_job's show_logs argument
    polls,              \* status GETs issued so far
    poll_result,        \* how the last status GET ended: "raise", "non200",
                        \* "falsy" or "ok" (None before the first)
    status,             \* monitor_job's local `status`
    previous_state,     \* monitor_job's local
    previous_app_state, \* monitor_job's local
    notified,           \* number of "Batch state: ..." notifications logged
    last_note,          \* the text fields of the last notification
    poll_errors,        \* "Error getting status" / "Error monitoring job" logs
    diag_logged,        \* last "Application diagnostics: ..." text logged
    final_state,        \* monitor_job's return value
    exit_code,          \* the process exit status set by main
    from_index,         \* print_all_logs' local
    total_printed,      \* print_all_logs' local
    fetches,            \* log GETs issued so far
    log_data,           \* print_all_logs' local: the response being handled
    dscen,              \* history: responses of this print_all_logs call that
                        \* follow a server holding 2500 lines (-1: left it)
    first_terminal,     \* history: number of the first poll that yielded a
                        \* terminal outer state (0: none yet)
    last_polled,        \* history: (state, appState) of the last successful poll
    scen                \* history: progress of the successful polls through
                        \* RUNNING, RUNNING, FINISHED/SUCCESS (-1: left it)

monVars ==
    <<show_logs, polls, poll_result, status, previous_state, previous_app_state, notified,
      last_note, poll_errors, diag_logged, final_state,
      first_terminal, last_polled, scen>>
drainVars == <<from_index, total_printed, fetches, log_data, dscen>>
subVars ==
    <<resource, py_files, jars, classname, conf, files, resource_is_local, resource_expanded,
      py_files_list, jars_list, idx, local_py_files, remote_py_files,
      local_jars, remote_jars, has_local_files, batch_request, opened_files,
      open_handles, raised, request, posts, response, batch_id, class_log,
      call_path, answers>>
vars == <<pc, exit_code, subVars, monVars, drainVars>>

\* ------------------------------------------------------------------------
\* submit_batch
\* ------------------------------------------------------------------------
\* py_files_list / jars_list: a string is split at the commas, its pieces
\* trimmed and the empty ones dropped; a list loses its empty entries.
Normalise(aux) ==
    IF aux.kind = "none" \/ aux.val = <<>> THEN <<>>
    ELSE IF aux.kind = "str" THEN StrippedNonEmpty(Split(aux.val, ","))
    ELSE NonEmpty(aux.val)

\* Mutant: the multipart decision forgets the jars.
HasLocalFiles_no_jars(res_local, loc_py, loc_jars) ==
    res_local \/ loc_py # <<>>

\* has_local_files
HasLocalFiles(res_local, loc_py, loc_jars) ==
    res_local \/ loc_py # <<>> \/ loc_jars # <<>>

\* Mutant: the payload lists every pyFiles / jars entry, uploaded or not.
RemoteField_all(remote, all) == IF all # <<>> THEN <<all>> ELSE <<>>

\* batch_request["pyFiles"] / ["jars"]: set only when the remote list is not
\* empty.  A field of the request is <<>> when the key is missing and <<v>>
\* when it holds v.
RemoteField(remote, all) == IF remote # <<>> THEN <<remote>> ELSE <<>>

\* Mutant: the deploy mode is a default that the caller's value overrides.
ConfDict_default(cnf) ==
    LET given == IF cnf.kind = "str" THEN ParseConf(cnf.val)
                 ELSE IF cnf.kind = "dict" THEN cnf.val
                 ELSE EmptyDict
    IN  IF DeployModeKey \in DOMAIN given THEN given
        ELSE DictSet(given, DeployModeKey, Cluster)

\* Lines 194-200: conf_dict with the deploy mode forced.
ConfDict(cnf) ==
    LET given == IF cnf.kind = "str" THEN ParseConf(cnf.val)
                 ELSE IF cnf.kind = "dict" THEN cnf.val
                 ELSE EmptyDict
    IN  DictSet(given, DeployModeKey, Cluster)

\* Mutant: the class name is sent for every kind of job.
ClassNameField_always(cls, is_pyspark) ==
    IF Truthy(cls) THEN <<cls>> ELSE <<>>

\* Lines 190-192: className only for a job that is not pyspark.
ClassNameField(cls, is_pyspark) ==
    IF Truthy(cls) /\ ~is_pyspark THEN <<cls>> ELSE <<>>

\* batch_request without name and args, which no operation here reads.
BuildRequest(res, res_local, rem_py, all_py, rem_jars, all_jars, cls, cnf) ==
    [batchType |-> IF IsPythonResource(res) THEN "pyspark" ELSE "spark",
     resource |-> IF ~res_local THEN <<res>> ELSE <<>>,
     className |-> ClassNameField(cls, IsPythonResource(res)),
     conf |-> ConfDict(cnf),
     pyFiles |-> RemoteField(rem_py, all_py),
     jars |-> RemoteField(rem_jars, all_jars)]
NoBatchRequest ==
    [batchType |-> "", resource |-> <<>>, className |-> <<>>,
     conf |-> EmptyDict, pyFiles |-> <<>>, jars |-> <<>>]
NoRequest == [mode |-> "none", json |-> NoBatchRequest, parts |-> <<>>]

\* The i-th element of each pair.
Column(pairs, i) == [k \in DOMAIN pairs |-> pairs[k][i]]

\* The files _submit_multipart opens, in the order it opens them.
UploadPart(field, path) ==
    [field |-> field, filename |-> Basename(path), path |-> path]
UploadParts(res_file, loc_py, loc_jars) ==
    (IF res_file # <<>> THEN <<UploadPart("resourceFile", res_file)>> ELSE <<>>)
    \o [k \in DOMAIN loc_py |-> UploadPart("extraResourceFiles", loc_py[k][2])]
    \o [k \in DOMAIN loc_jars |-> UploadPart("extraResourceFiles", loc_jars[k][2])]

\* The position after the classification of the resource or of a list.
AfterClassify(at, pl, jl) ==
    IF at = "submit" /\ pl # <<>> THEN "classify_py"
    ELSE IF at \in {"submit", "classify_py"} /\ jl # <<>> THEN "classify_jars"
    ELSE "build"

InitSubmit ==
    /\ pc = "submit"
    /\ resource \in Resources
    /\ py_files \in PyInputs
    /\ jars \in JarInputs
    /\ classname = PyNone
    /\ conf = NoConf
    /\ files \in SUBSET Files
    /\ resource_is_local = FALSE
    /\ resource_expanded = <<>>
    /\ py_files_list = <<>>
    /\ jars_list = <<>>
    /\ idx = 1
    /\ local_py_files = <<>>
    /\ remote_py_files = <<>>
    /\ local_jars = <<>>
    /\ remote_jars = <<>>
    /\ has_local_files = FALSE
    /\ batch_request = NoBatchRequest
    /\ opened_files = <<>>
    /\ open_handles = {}
    /\ raised = FALSE
    /\ request = NoRequest
    /\ posts = 0
    /\ response = NoResponse
    /\ batch_id = PyNone
    /\ class_log = <<>>
    /\ call_path = <<>>
    /\ answers = <<>>
    /\ show_logs = FALSE
    /\ polls = 0
    /\ poll_result = PyNone
    /\ status = NoStatus
    /\ previous_state = PyNone
    /\ previous_app_state = PyNone
    /\ notified = 0
    /\ last_note = NoNote
    /\ poll_errors = 0
    /\ diag_logged = PyNone
    /\ final_state = PyNone
    /\ exit_code = PyNone
    /\ from_index = 0
    /\ total_printed = 0
    /\ fetches = 0
    /\ log_data = NoLogData
    /\ dscen = 0
    /\ first_terminal = 0
    /\ last_polled = <<>>
    /\ scen = 0

\* Another process creates or deletes a file while submit_batch runs.
FsActive == pc \in {"submit", "classify_py", "classify_jars", "build", "multipart"}
FsCreate ==
    /\ FsActive
    /\ \E f \in Files \ files : files' = files \cup {f}
    /\ UNCHANGED <<pc, exit_code, resource, py_files, jars, resource_is_local,
                   resource_expanded, py_files_list, jars_list, idx,
                   local_py_files, remote_py_files, local_jars, remote_jars,
                   has_local_files, batch_request, opened_files, open_handles,
                   raised, request, posts, response, batch_id, class_log,
                   classname, conf, call_path, answers, monVars, drainVars>>
FsDelete ==
    /\ FsActive
    /\ \E f \in files : files' = files \ {f}
    /\ UNCHANGED <<pc, exit_code, resource, py_files, jars, resource_is_local,
                   resource_expanded, py_files_list, jars_list, idx,
                   local_py_files, remote_py_files, local_jars, remote_jars,
                   has_local_files, batch_request, opened_files, open_handles,
                   raised, request, posts, response, batch_id, class_log,
                   classname, conf, call_path, answers, monVars, drainVars>>

\* Lines 150-171: the resource is classified, the two lists are normalised.
ClassifyResource ==
    /\ pc = "submit"
    /\ resource_is_local' = IsLocalFile(resource, files)
    /\ resource_expanded' =
           IF IsLocalFile(resource, files) THEN ExpandPath(resource) ELSE <<>>
    /\ class_log' = Append(class_log,
           [kind |-> "resource", path |-> resource,
            local |-> IsLocalFile(resource, files)])
    /\ py_files_list' = Normalise(py_files)
    /\ jars_list' = Normalise(jars)
    /\ idx' = 1
    /\ pc' = AfterClassify("submit", Normalise(py_files), Normalise(jars))
    /\ UNCHANGED <<exit_code, resource, py_files, jars, files, local_py_files,
                   remote_py_files, local_jars, remote_jars, has_local_files,
                   batch_request, opened_files, open_handles, raised, request,
                   posts, response, batch_id, classname, conf, call_path, answers, monVars, drainVars>>

\* One pass of the loop of classify_paths(py_files_list).
ClassifyPy ==
    /\ pc = "classify_py"
    /\ LET path == Strip(py_files_list[idx])
           local == IsLocalFile(path, files)
       IN  IF path = <<>>
           THEN UNCHANGED <<local_py_files, remote_py_files, class_log>>
           ELSE /\ class_log' = Append(class_log,
                      [kind |-> "py", path |-> path, local |-> local])
                /\ local_py_files' =
                      IF local THEN Append(local_py_files, <<path, ExpandPath(path)>>)
                      ELSE local_py_files
                /\ remote_py_files' =
                      IF local THEN remote_py_files
                      ELSE Append(remote_py_files, path)
    /\ IF idx < Len(py_files_list)
       THEN idx' = idx + 1 /\ UNCHANGED pc
       ELSE idx' = 1 /\ pc' = AfterClassify("classify_py", py_files_list, jars_list)
    /\ UNCHANGED <<exit_code, resource, py_files, jars, files,
                   resource_is_local, resource_expanded, py_files_list,
                   jars_list, local_jars, remote_jars, has_local_files,
                   batch_request, opened_files, open_handles, raised, request,
                   posts, response, batch_id, classname, conf, call_path, answers, monVars, drainVars>>

\* One pass of the loop of classify_paths(jars_list).
ClassifyJar ==
    /\ pc = "classify_jars"
    /\ LET path == Strip(jars_list[idx])
           local == IsLocalFile(path, files)
       IN  IF path = <<>>
           THEN UNCHANGED <<local_jars, remote_jars, class_log>>
           ELSE /\ class_log' = Append(class_log,
                      [kind |-> "jar", path |-> path, local |-> local])
                /\ local_jars' =
                      IF local THEN Append(local_jars, <<path, ExpandPath(path)>>)
                      ELSE local_jars
                /\ remote_jars' =
                      IF local THEN remote_jars ELSE Append(remote_jars, path)
    /\ IF idx < Len(jars_list)
       THEN idx' = idx + 1 /\ UNCHANGED pc
       ELSE idx' = 1 /\ pc' = "build"
    /\ UNCHANGED <<exit_code, resource, py_files, jars, files,
                   resource_is_local, resource_expanded, py_files_list,
                   jars_list, local_py_files, remote_py_files, has_local_files,
                   batch_request, opened_files, open_handles, raised, request,
                   posts, response, batch_id, classname, conf, call_path, answers, monVars, drainVars>>

\* Lines 176-217: the request object and the choice of the transport.
Build ==
    /\ pc = "build"
    /\ has_local_files' = HasLocalFiles(resource_is_local, local_py_files, local_jars)
    /\ batch_request' =
           BuildRequest(resource, resource_is_local, remote_py_files,
                        py_files_list, remote_jars, jars_list, classname, conf)
    /\ idx' = 1
    /\ pc' = IF HasLocalFiles(resource_is_local, local_py_files, local_jars)
             THEN "multipart" ELSE "json"
    /\ UNCHANGED <<exit_code, resource, py_files, jars, files,
                   resource_is_local, resource_expanded, py_files_list,
                   jars_list, local_py_files, remote_py_files, local_jars,
                   remote_jars, opened_files, open_handles, raised, request,
                   posts, response, batch_id, class_log, classname, conf, call_path, answers, monVars, drainVars>>

\* _submit_json: the POST with the request as JSON body.  When it raises, the
\* exception leaves submit_batch and main exits with status 1.
SubmitJson ==
    /\ pc = "json"
    /\ request' = [mode |-> "json", json |-> batch_request, parts |-> <<>>]
    /\ posts' = posts + 1
    /\ \/ /\ \E r \in PostResponses : response' = r
          /\ pc' = "response"
          /\ UNCHANGED <<raised, exit_code>>
       \/ /\ raised' = TRUE
          /\ pc' = "exit"
          /\ exit_code' = 1
          /\ UNCHANGED response
    /\ UNCHANGED <<resource, py_files, jars, files, resource_is_local,
                   resource_expanded, py_files_list, jars_list, idx,
                   local_py_files, remote_py_files, local_jars, remote_jars,
                   has_local_files, batch_request, opened_files, open_handles,
                   batch_id, class_log, classname, conf, call_path, answers, monVars, drainVars>>

\* _submit_multipart: the next file is opened for reading.
MpOpen ==
    /\ pc = "multipart"
    /\ LET parts == UploadParts(resource_expanded, local_py_files, local_jars)
       IN  /\ idx <= Len(parts)
           /\ IsFile(files, parts[idx].path)
           /\ opened_files' = Append(opened_files, parts[idx].path)
           /\ open_handles' = open_handles \cup {Len(opened_files) + 1}
    /\ idx' = idx + 1
    /\ UNCHANGED <<pc, exit_code, resource, py_files, jars, files,
                   resource_is_local, resource_expanded, py_files_list,
                   jars_list, local_py_files, remote_py_files, local_jars,
                   remote_jars, has_local_files, batch_request, raised,
                   request, posts, response, batch_id, class_log, classname, conf, call_path, answers, monVars,
                   drainVars>>

\* _submit_multipart: open() raises, the file is no longer there.
MpOpenFails ==
    /\ pc = "multipart"
    /\ LET parts == UploadParts(resource_expanded, local_py_files, local_jars)
       IN  /\ idx <= Len(parts)
           /\ ~IsFile(files, parts[idx].path)
    /\ raised' = TRUE
    /\ pc' = "mp_finally"
    /\ UNCHANGED <<exit_code, resource, py_files, jars, files,
                   resource_is_local, resource_expanded, py_files_list,
                   jars_list, idx, local_py_files, remote_py_files, local_jars,
                   remote_jars, has_local_files, batch_request, opened_files,
                   open_handles, request, posts, response, batch_id, class_log,
                   classname, conf, call_path, answers, monVars, drainVars>>

\* _submit_multipart: the POST with the JSON part and the opened files.
MpPost ==
    /\ pc = "multipart"
    /\ LET parts == UploadParts(resource_expanded, local_py_files, local_jars)
       IN  /\ idx > Len(parts)
           /\ request' =
                 [mode |-> "multipart", json |-> batch_request, parts |-> parts]
    /\ posts' = posts + 1
    /\ \/ /\ \E r \in PostResponses : response' = r
          /\ UNCHANGED raised
       \/ /\ raised' = TRUE
          /\ UNCHANGED response
    /\ pc' = "mp_finally"
    /\ UNCHANGED <<exit_code, resource, py_files, jars, files,
                   resource_is_local, resource_expanded, py_files_list,
                   jars_list, idx, local_py_files, remote_py_files, local_jars,
                   remote_jars, has_local_files, batch_request, opened_files,
                   open_handles, batch_id, class_log, classname, conf, call_path, answers, monVars, drainVars>>

\* Mutant: the files are closed after the POST only, not in a finally clause.
MpFinally_no_finally ==
    /\ pc = "mp_finally"
    /\ open_handles' = IF raised THEN open_handles ELSE {}
    /\ IF raised
       THEN pc' = "exit" /\ exit_code' = 1
       ELSE pc' = "response" /\ UNCHANGED exit_code
    /\ UNCHANGED <<resource, py_files, jars, files, resource_is_local,
                   resource_expanded, py_files_list, jars_list, idx,
                   local_py_files, remote_py_files, local_jars, remote_jars,
                   has_local_files, batch_request, opened_files, raised,
                   request, posts, response, batch_id, class_log, classname, conf, call_path, answers, monVars,
                   drainVars>>

\* _submit_multipart: the finally clause closes every opened file; then the
\* response is returned or the exception goes on to main, which exits with 1.
MpFinally ==
    /\ pc = "mp_finally"
    /\ open_handles' = open_handles \ DOMAIN opened_files
    /\ IF raised
       THEN pc' = "exit" /\ exit_code' = 1
       ELSE pc' = "response" /\ UNCHANGED exit_code
    /\ UNCHANGED <<resource, py_files, jars, files, resource_is_local,
                   resource_expanded, py_files_list, jars_list, idx,
                   local_py_files, remote_py_files, local_jars, remote_jars,
                   has_local_files, batch_request, opened_files, raised,
                   request, posts, response, batch_id, class_log, classname, conf, call_path, answers, monVars,
                   drainVars>>

\* Mutant: a success response without an id is accepted.
CheckResponse_no_id ==
    /\ pc = "response"
    /\ IF response.code \notin {200, 201}
       THEN /\ raised' = TRUE
            /\ pc' = "exit"
            /\ exit_code' = 1
            /\ UNCHANGED batch_id
       ELSE /\ batch_id' = response.id
            /\ pc' = "submitted"
            /\ UNCHANGED <<raised, exit_code>>
    /\ UNCHANGED <<resource, py_files, jars, files, resource_is_local,
                   resource_expanded, py_files_list, jars_list, idx,
                   local_py_files, remote_py_files, local_jars, remote_jars,
                   has_local_files, batch_request, opened_files, open_handles,
                   request, posts, response, class_log, classname, conf, call_path, answers, monVars, drainVars>>

\* Lines 219-225: the status check and batch['id'].
CheckResponse ==
    /\ pc = "response"
    /\ IF response.code \notin {200, 201} \/ response.id = Absent
       THEN /\ raised' = TRUE
            /\ pc' = "exit"
            /\ exit_code' = 1
            /\ UNCHANGED batch_id
       ELSE /\ batch_id' = response.id
            /\ pc' = "submitted"
            /\ UNCHANGED <<raised, exit_code>>
    /\ UNCHANGED <<resource, py_files, jars, files, resource_is_local,
                   resource_expanded, py_files_list, jars_list, idx,
                   local_py_files, remote_py_files, local_jars, remote_jars,
                   has_local_files, batch_request, opened_files, open_handles,
                   request, posts, response, class_log, classname, conf, call_path, answers, monVars, drainVars>>

NextSubmit ==
    \/ FsCreate
    \/ FsDelete
    \/ ClassifyResource
    \/ ClassifyPy
    \/ ClassifyJar
    \/ Build
    \/ SubmitJson
    \/ MpOpen
    \/ MpOpenFails
    \/ MpPost
    \/ MpFinally
    \/ CheckResponse

SpecSubmit == InitSubmit /\ [][NextSubmit]_vars

\* submit_batch with every kind of classname and conf argument, the pyFiles
\* and jars arguments absent or in string form.
InitRequest ==
    /\ pc = "submit"
    /\ resource \in Resources \cup {P_s3a_py}
    /\ py_files \in {NoAux, AuxStr(PyText)}
    /\ jars \in {NoAux, AuxStr(JarText)}
    /\ classname \in ClassNames
    /\ conf \in ConfInputs
    /\ files \in SUBSET Files
    /\ resource_is_local = FALSE
    /\ resource_expanded = <<>>
    /\ py_files_list = <<>>
    /\ jars_list = <<>>
    /\ idx = 1
    /\ local_py_files = <<>>
    /\ remote_py_files = <<>>
    /\ local_jars = <<>>
    /\ remote_jars = <<>>
    /\ has_local_files = FALSE
    /\ batch_request = NoBatchRequest
    /\ opened_files = <<>>
    /\ open_handles = {}
    /\ raised = FALSE
    /\ request = NoRequest
    /\ posts = 0
    /\ response = NoResponse
    /\ batch_id = PyNone
    /\ class_log = <<>>
    /\ call_path = <<>>
    /\ answers = <<>>
    /\ show_logs = FALSE
    /\ polls = 0
    /\ poll_result = PyNone
    /\ status = NoStatus
    /\ previous_state = PyNone
    /\ previous_app_state = PyNone
    /\ notified = 0
    /\ last_note = NoNote
    /\ poll_errors = 0
    /\ diag_logged = PyNone
    /\ final_state = PyNone
    /\ exit_code = PyNone
    /\ from_index = 0
    /\ total_printed = 0
    /\ fetches = 0
    /\ log_data = NoLogData
    /\ dscen = 0
    /\ first_terminal = 0
    /\ last_polled = <<>>
    /\ scen = 0

SpecRequest == InitRequest /\ [][NextSubmit]_vars

\* ------------------------------------------------------------------------
\* is_local_file called alone, again and again for one path
\* ------------------------------------------------------------------------
\* S3A://b/c.jar
P_S3A_jar == <<"S", "3", "A", ":", "/", "/", "b", "/", "c", ".", "j", "a", "r">>
\* xy:/a.py
P_xy_a_py == <<"x", "y", ":", "/", "a", ".", "p", "y">>
\* c:/a.py
P_c_a_py == <<"c", ":", "/", "a", ".", "p", "y">>

\* The paths classified: empty, without scheme, with a scheme of the list
\* (in lower and in upper case), with another scheme, with a one-letter scheme.
ClassifyPaths ==
    {<<>>, P_a_py, P_home_jar, P_hdfs_jar, P_S3A_jar, P_xy_a_py, P_c_a_py}
\* The regular files that may exist, by expanded path: a relative path may
\* well read like a URI.
ClassifyFiles == {P_a_py, P_h_d_jar, P_hdfs_jar, P_xy_a_py, P_c_a_py}

InitClassify ==
    /\ pc = "is_local_file"
    /\ resource = <<>>
    /\ py_files = NoAux
    /\ jars = NoAux
    /\ classname = PyNone
    /\ conf = NoConf
    /\ files \in SUBSET ClassifyFiles
    /\ resource_is_local = FALSE
    /\ resource_expanded = <<>>
    /\ py_files_list = <<>>
    /\ jars_list = <<>>
    /\ idx = 1
    /\ local_py_files = <<>>
    /\ remote_py_files = <<>>
    /\ local_jars = <<>>
    /\ remote_jars = <<>>
    /\ has_local_files = FALSE
    /\ batch_request = NoBatchRequest
    /\ opened_files = <<>>
    /\ open_handles = {}
    /\ raised = FALSE
    /\ request = NoRequest
    /\ posts = 0
    /\ response = NoResponse
    /\ batch_id = PyNone
    /\ class_log = <<>>
    /\ call_path \in ClassifyPaths
    /\ answers = <<>>
    /\ show_logs = FALSE
    /\ polls = 0
    /\ poll_result = PyNone
    /\ status = NoStatus
    /\ previous_state = PyNone
    /\ previous_app_state = PyNone
    /\ notified = 0
    /\ last_note = NoNote
    /\ poll_errors = 0
    /\ diag_logged = PyNone
    /\ final_state = PyNone
    /\ exit_code = PyNone
    /\ from_index = 0
    /\ total_printed = 0
    /\ fetches = 0
    /\ log_data = NoLogData
    /\ dscen = 0
    /\ first_terminal = 0
    /\ last_polled = <<>>
    /\ scen = 0

\* Another process creates or deletes a file between two calls.
CallFsCreate ==
    /\ pc = "is_local_file"
    /\ \E f \in ClassifyFiles \ files : files' = files \cup {f}
    /\ UNCHANGED <<pc, exit_code, resource, py_files, jars, classname, conf,
                   resource_is_local, resource_expanded, py_files_list,
                   jars_list, idx, local_py_files, remote_py_files, local_jars,
                   remote_jars, has_local_files, batch_request, opened_files,
                   open_handles, raised, request, posts, response, batch_id,
                   class_log, call_path, answers, monVars, drainVars>>
CallFsDelete ==
    /\ pc = "is_local_file"
    /\ \E f \in files : files' = files \ {f}
    /\ UNCHANGED <<pc, exit_code, resource, py_files, jars, classname, conf,
                   resource_is_local, resource_expanded, py_files_list,
                   jars_list, idx, local_py_files, remote_py_files, local_jars,
                   remote_jars, has_local_files, batch_request, opened_files,
                   open_handles, raised, request, posts, response, batch_id,
                   class_log, call_path, answers, monVars, drainVars>>

\* Mutant: the answer for a path is remembered and given again.
IsLocalCall_cached ==
    /\ pc = "is_local_file"
    /\ Len(answers) < MaxCalls
    /\ answers' =
          Append(answers,
                 [local |-> IF answers # <<>> THEN answers[1].local
                            ELSE IsLocalFile(call_path, files),
                  existed |-> IsFile(files, ExpandPath(call_path))])
    /\ UNCHANGED <<pc, exit_code, resource, py_files, jars, classname, conf,
                   resource_is_local, resource_expanded, py_files_list,
                   jars_list, idx, local_py_files, remote_py_files, local_jars,
                   remote_jars, has_local_files, batch_request, opened_files,
                   open_handles, raised, request, posts, response, batch_id,
                   class_log, call_path, files, monVars, drainVars>>

\* One call of is_local_file(call_path).
IsLocalCall ==
    /\ pc = "is_local_file"
    /\ Len(answers) < MaxCalls
    /\ answers' =
          Append(answers,
                 [local |-> IsLocalFile(call_path, files),
                  existed |-> IsFile(files, ExpandPath(call_path))])
    /\ UNCHANGED <<pc, exit_code, resource, py_files, jars, classname, conf,
                   resource_is_local, resource_expanded, py_files_list,
                   jars_list, idx, local_py_files, remote_py_files, local_jars,
                   remote_jars, has_local_files, batch_request, opened_files,
                   open_handles, raised, request, posts, response, batch_id,
                   class_log, call_path, files, monVars, drainVars>>

NextClassify ==
    \/ CallFsCreate
    \/ CallFsDelete
    \/ IsLocalCall

SpecClassify == InitClassify /\ [][NextClassify]_vars

\* ------------------------------------------------------------------------
\* monitor_job
\* ------------------------------------------------------------------------
\* The outer states that end the loop.
TerminalStates == {"FINISHED", "ERROR", "CANCELLED"}

\* Mutant: the comparison forgets the inner state.
StateChanged_outer_only(state, app_state, prev_state, prev_app_state) ==
    state # prev_state

\* `state != previous_state or app_state != previous_app_state`
StateChanged(state, app_state, prev_state, prev_app_state) ==
    state # prev_state \/ app_state # prev_app_state

\* The text of a notification: f"Batch state: {state} | App state: {app_state or 'N/A'}"
Note(state, app_state) ==
    [state |-> state, app |-> IF Truthy(app_state) THEN app_state ELSE "N/A"]

\* Mutant: the FINISHED branch returns the outer state.
ReturnValue_outer(state, app_state) == state

\* What monitor_job returns for a terminal snapshot.
ReturnValue(state, app_state) ==
    IF state = "FINISHED"
    THEN (IF Truthy(app_state) THEN app_state ELSE state)
    ELSE state

\* The diagnostic text logged for a terminal snapshot (unchanged if none is).
DiagLog(app_diagnostic, logged) ==
    IF Truthy(app_diagnostic) THEN app_diagnostic ELSE logged

\* Mutant: 'ERROR' is missing from the failure list.
ExitCode_no_error(fs) ==
    IF fs \in {"FAILED"} THEN 1
    ELSE IF fs = "CANCELLED" THEN 2
    ELSE IF fs \in {"SUCCESS", "SUCCEEDED", "FINISHED"} THEN 0
    ELSE 3

\* Mutant: an unexpected state falls through to success.
ExitCode_coerce(fs) ==
    IF fs \in {"FAILED", "ERROR"} THEN 1
    ELSE IF fs = "CANCELLED" THEN 2
    ELSE 0

\* main: the exit status for monitor_job's return value.
ExitCode(fs) ==
    IF fs \in {"FAILED", "ERROR"} THEN 1
    ELSE IF fs = "CANCELLED" THEN 2
    ELSE IF fs \in {"SUCCESS", "SUCCEEDED", "FINISHED"} THEN 0
    ELSE 3

StateOf(body) == Get(body.state, "UNKNOWN")
AppStateOf(body) == Get(body.appState, "")
DiagOf(body) == Get(body.appDiagnostic, "")

\* History: the next position in RUNNING, RUNNING, FINISHED/SUCCESS, where
\* the two RUNNING snapshots carry the same appState.
ScenStep(s, polled, state, app_state) ==
    IF s = 0 /\ state = "RUNNING" THEN 1
    ELSE IF s = 1 /\ <<state, app_state>> = polled THEN 2
    ELSE IF s = 2 /\ state = "FINISHED" /\ app_state = "SUCCESS" THEN 3
    ELSE -1

\* monitor_job is entered after submit_batch returned an id; here after the
\* JSON submission of a remote jar without pyFiles and jars.
InitMonitor ==
    /\ pc = "poll"
    /\ resource = P_s3a_jar
    /\ py_files = NoAux
    /\ jars = NoAux
    /\ classname = PyNone
    /\ conf = NoConf
    /\ files = {}
    /\ resource_is_local = FALSE
    /\ resource_expanded = <<>>
    /\ py_files_list = <<>>
    /\ jars_list = <<>>
    /\ idx = 1
    /\ local_py_files = <<>>
    /\ remote_py_files = <<>>
    /\ local_jars = <<>>
    /\ remote_jars = <<>>
    /\ has_local_files = FALSE
    /\ batch_request = BuildRequest(P_s3a_jar, FALSE, <<>>, <<>>, <<>>, <<>>, PyNone, NoConf)
    /\ opened_files = <<>>
    /\ open_handles = {}
    /\ raised = FALSE
    /\ request =
          [mode |-> "json",
           json |-> BuildRequest(P_s3a_jar, FALSE, <<>>, <<>>, <<>>, <<>>, PyNone, NoConf),
           parts |-> <<>>]
    /\ posts = 1
    /\ response = [code |-> 200, id |-> "b1"]
    /\ batch_id = "b1"
    /\ class_log =
          <<[kind |-> "resource", path |-> P_s3a_jar, local |-> FALSE]>>
    /\ call_path = <<>>
    /\ answers = <<>>
    /\ show_logs \in BOOLEAN
    /\ polls = 0
    /\ poll_result = PyNone
    /\ status = NoStatus
    /\ previous_state = PyNone
    /\ previous_app_state = PyNone
    /\ notified = 0
    /\ last_note = NoNote
    /\ poll_errors = 0
    /\ diag_logged = PyNone
    /\ final_state = PyNone
    /\ exit_code = PyNone
    /\ from_index = 0
    /\ total_printed = 0
    /\ fetches = 0
    /\ log_data = NoLogData
    /\ dscen = 0
    /\ first_terminal = 0
    /\ last_polled = <<>>
    /\ scen = 0

\* session.get raises (network failure), response.json() raises (body is not
\* JSON), or the body is a JSON value without .get: the except clause of the
\* loop logs the error.
PollRaises ==
    /\ pc = "poll"
    /\ polls < MaxPolls
    /\ UNCHANGED subVars
    /\ polls' = polls + 1
    /\ poll_result' = "raise"
    /\ poll_errors' = poll_errors + 1
    /\ pc' = "sleep"
    /\ UNCHANGED <<show_logs, status, previous_state, previous_app_state,
                   notified, last_note, diag_logged, final_state, exit_code,
                   first_terminal, last_polled, scen, drainVars>>

\* Mutant: a status other than 200 ends the monitor with an error outcome.
PollNon200_abort ==
    /\ pc = "poll"
    /\ polls < MaxPolls
    /\ UNCHANGED subVars
    /\ polls' = polls + 1
    /\ poll_result' = "non200"
    /\ poll_errors' = poll_errors + 1
    /\ status' = NoStatus
    /\ pc' = "returned"
    /\ final_state' = "ERROR"
    /\ UNCHANGED <<show_logs, previous_state, previous_app_state,
                   notified, last_note, diag_logged, exit_code,
                   first_terminal, last_polled, scen, drainVars>>

\* The response status is not 200: get_batch_status logs and returns None.
PollNon200 ==
    /\ pc = "poll"
    /\ polls < MaxPolls
    /\ UNCHANGED subVars
    /\ polls' = polls + 1
    /\ poll_result' = "non200"
    /\ poll_errors' = poll_errors + 1
    /\ status' = NoStatus
    /\ pc' = "sleep"
    /\ UNCHANGED <<show_logs, previous_state, previous_app_state,
                   notified, last_note, diag_logged, final_state, exit_code,
                   first_terminal, last_polled, scen, drainVars>>

\* A 200 response whose JSON body is falsy ({} or null): `if status:` skips
\* the iteration without logging.
PollFalsy ==
    /\ pc = "poll"
    /\ polls < MaxPolls
    /\ UNCHANGED subVars
    /\ polls' = polls + 1
    /\ poll_result' = "falsy"
    /\ status' = NoStatus
    /\ pc' = "sleep"
    /\ UNCHANGED <<show_logs, previous_state, previous_app_state, poll_errors,
                   notified, last_note, diag_logged, final_state, exit_code,
                   first_terminal, last_polled, scen, drainVars>>

\* A 200 response with a status object: one pass through the loop body, up to
\* the return, the call of print_all_logs, or the sleep.
HandleStatus(body) ==
    LET state == StateOf(body)
        app_state == AppStateOf(body)
        changed == StateChanged(state, app_state, previous_state, previous_app_state)
    IN  /\ status' = body
        /\ notified' = IF changed THEN notified + 1 ELSE notified
        /\ last_note' = IF changed THEN Note(state, app_state) ELSE last_note
        /\ previous_state' = IF changed THEN state ELSE previous_state
        /\ previous_app_state' = IF changed THEN app_state ELSE previous_app_state
        /\ last_polled' = <<state, app_state>>
        /\ scen' = ScenStep(scen, last_polled, state, app_state)
        /\ IF state \in TerminalStates
           THEN /\ first_terminal' =
                       IF first_terminal = 0 THEN polls + 1 ELSE first_terminal
                /\ diag_logged' = DiagLog(DiagOf(body), diag_logged)
                /\ IF show_logs
                   THEN /\ pc' = "drain"
                        /\ from_index' = 0
                        /\ total_printed' = 0
                        /\ dscen' = 0
                        /\ UNCHANGED final_state
                   ELSE /\ pc' = "returned"
                        /\ final_state' = ReturnValue(state, app_state)
                        /\ UNCHANGED <<from_index, total_printed, dscen>>
           ELSE /\ pc' = "sleep"
                /\ UNCHANGED <<first_terminal, diag_logged, final_state,
                               from_index, total_printed, dscen>>

PollOk ==
    /\ pc = "poll"
    /\ polls < MaxPolls
    /\ UNCHANGED subVars
    /\ polls' = polls + 1
    /\ poll_result' = "ok"
    /\ \E body \in StatusBodies : HandleStatus(body)
    /\ UNCHANGED <<show_logs, poll_errors, exit_code, fetches, log_data>>

\* time.sleep(10): the seconds between two polls.
SleepSeconds == 10

\* time.sleep(10), then the next iteration.
Sleep ==
    /\ pc = "sleep"
    /\ UNCHANGED subVars
    /\ pc' = "poll"
    /\ UNCHANGED <<exit_code, classname, conf, call_path, answers, monVars, drainVars>>

\* ------------------------------------------------------------------------
\* print_all_logs, called from monitor_job
\* ------------------------------------------------------------------------
\* The loop of print_all_logs ends and monitor_job returns.
DrainReturns ==
    /\ pc' = "returned"
    /\ final_state' = ReturnValue(StateOf(status), AppStateOf(status))

\* The log GET raises (network failure, body not JSON, logRowSet not a
\* list): nothing in print_all_logs catches it, its frame and locals are
\* dropped and the except clause of monitor_job's loop logs the error.
FetchRaises ==
    /\ pc = "drain"
    /\ fetches < MaxFetches
    /\ UNCHANGED subVars
    /\ fetches' = fetches + 1
    /\ poll_errors' = poll_errors + 1
    /\ from_index' = 0
    /\ total_printed' = 0
    /\ dscen' = 0
    /\ pc' = "sleep"
    /\ UNCHANGED log_data
    /\ UNCHANGED <<show_logs, polls, poll_result, status, previous_state,
                   previous_app_state, notified, last_note, diag_logged,
                   final_state, exit_code, first_terminal, last_polled, scen>>

\* get_batch_logs returns None (status not 200) or a falsy body: "No log data
\* available", break.
FetchNoData ==
    /\ pc = "drain"
    /\ fetches < MaxFetches
    /\ UNCHANGED subVars
    /\ fetches' = fetches + 1
    /\ dscen' = -1
    /\ DrainReturns
    /\ UNCHANGED <<show_logs, polls, poll_result, status, previous_state,
                   previous_app_state, notified, last_note, poll_errors,
                   diag_logged, exit_code, first_terminal, last_polled, scen,
                   from_index, total_printed, log_data>>

\* History: the next position in the responses of a server that holds
\* 2500 lines and answers each request with the lines from the offset on,
\* at most `size` of them.
DrainScenStep(d, offset, rows, total) ==
    LET left == IF offset < 2500 THEN 2500 - offset ELSE 0
    IN  IF /\ d >= 0
           /\ total = 2500
           /\ rows = (IF left < size THEN left ELSE size)
        THEN d + 1
        ELSE -1

\* The localLog bodies: a window of `rows` lines and the server's `total`
\* (0 when the key is missing).
LogBodies == [rows : RowCounts, total : Totals]

\* Mutant: the next offset is moved by the size of the window asked for, not
\* by the number of rows returned.
HandleLogData_by_window(ld) ==
    /\ total_printed' = total_printed + ld.rows
    /\ dscen' = DrainScenStep(dscen, from_index, ld.rows, ld.total)
    /\ IF from_index + ld.rows >= ld.total
       THEN /\ DrainReturns
            /\ UNCHANGED from_index
       ELSE /\ from_index' = from_index + size
            /\ pc' = "drain"
            /\ UNCHANGED final_state

\* Mutant: the loop goes on when the window ends exactly at the total.
HandleLogData_off_by_one(ld) ==
    /\ total_printed' = total_printed + ld.rows
    /\ dscen' = DrainScenStep(dscen, from_index, ld.rows, ld.total)
    /\ IF from_index + ld.rows > ld.total
       THEN /\ DrainReturns
            /\ UNCHANGED from_index
       ELSE /\ from_index' = from_index + ld.rows
            /\ pc' = "drain"
            /\ UNCHANGED final_state

\* Lines 318-325: the rows are printed and counted, the total is read from
\* this response, and the loop ends or goes on from the next offset.
HandleLogData(ld) ==
    /\ total_printed' = total_printed + ld.rows
    /\ dscen' = DrainScenStep(dscen, from_index, ld.rows, ld.total)
    /\ IF from_index + ld.rows >= ld.total
       THEN /\ DrainReturns
            /\ UNCHANGED from_index
       ELSE /\ from_index' = from_index + ld.rows
            /\ pc' = "drain"
            /\ UNCHANGED final_state

\* One iteration of the loop of print_all_logs whose GET is answered with
\* a body.
FetchOk ==
    /\ pc = "drain"
    /\ fetches < MaxFetches
    /\ UNCHANGED subVars
    /\ fetches' = fetches + 1
    /\ \E ld \in LogBodies : ld.rows <= size /\ HandleLogData(ld)
    /\ UNCHANGED <<show_logs, polls, poll_result, status, previous_state,
                   previous_app_state, notified, last_note, poll_errors,
                   diag_logged, exit_code, first_terminal, last_polled, scen,
                   log_data>>

\* The same iteration in two steps.  Line 314: the GET is answered.
LogResponse ==
    /\ pc = "drain"
    /\ fetches < MaxFetches
    /\ UNCHANGED subVars
    /\ fetches' = fetches + 1
    /\ \E ld \in LogBodies : ld.rows <= size /\ log_data' = ld
    /\ pc' = "rows"
    /\ UNCHANGED <<show_logs, polls, poll_result, status, previous_state,
                   previous_app_state, notified, last_note, poll_errors,
                   diag_logged, final_state, exit_code, first_terminal,
                   last_polled, scen, from_index, total_printed, dscen>>

\* Lines 318-325 for the body received.
PrintRows ==
    /\ pc = "rows"
    /\ UNCHANGED subVars
    /\ HandleLogData(log_data)
    /\ log_data' = NoLogData
    /\ UNCHANGED <<show_logs, polls, poll_result, status, previous_state,
                   previous_app_state, notified, last_note, poll_errors,
                   diag_logged, exit_code, first_terminal, last_polled, scen,
                   fetches>>

\* ------------------------------------------------------------------------
\* main, after monitor_job returned
\* ------------------------------------------------------------------------
MainExit ==
    /\ pc = "returned"
    /\ UNCHANGED subVars
    /\ exit_code' = ExitCode(final_state)
    /\ pc' = "exit"
    /\ UNCHANGED <<show_logs, polls, poll_result, status, previous_state,
                   previous_app_state, notified, last_note, poll_errors,
                   diag_logged, final_state, first_terminal, last_polled,
                   scen, drainVars>>

NextMonitor ==
    \/ PollRaises
    \/ PollNon200
    \/ PollFalsy
    \/ PollOk
    \/ Sleep
    \/ FetchRaises
    \/ FetchNoData
    \/ FetchOk
    \/ MainExit

SpecMonitor == InitMonitor /\ [][NextMonitor]_vars

\* ------------------------------------------------------------------------
\* main: submit_batch, then monitor_job, then the exit status
\* ------------------------------------------------------------------------
\* The status bodies of the whole-invocation specification: one running and
\* two terminal outer states, with and without an inner state.
MainBodies ==
    [state : {"RUNNING", "FINISHED", "ERROR"}, appState : {Absent, "FAILED"},
     appDiagnostic : {Absent}]

\* One invocation: a remote jar with one pyFiles and one jars entry that are
\* local files when they exist.
InitMain ==
    /\ pc = "submit"
    /\ resource = P_s3a_jar
    /\ py_files = AuxList(<<P_sp_a_py>>)
    /\ jars = AuxList(<<P_home_jar>>)
    /\ classname = PyNone
    /\ conf = NoConf
    /\ files \in SUBSET Files
    /\ resource_is_local = FALSE
    /\ resource_expanded = <<>>
    /\ py_files_list = <<>>
    /\ jars_list = <<>>
    /\ idx = 1
    /\ local_py_files = <<>>
    /\ remote_py_files = <<>>
    /\ local_jars = <<>>
    /\ remote_jars = <<>>
    /\ has_local_files = FALSE
    /\ batch_request = NoBatchRequest
    /\ opened_files = <<>>
    /\ open_handles = {}
    /\ raised = FALSE
    /\ request = NoRequest
    /\ posts = 0
    /\ response = NoResponse
    /\ batch_id = PyNone
    /\ class_log = <<>>
    /\ call_path = <<>>
    /\ answers = <<>>
    /\ show_logs \in BOOLEAN
    /\ polls = 0
    /\ poll_result = PyNone
    /\ status = NoStatus
    /\ previous_state = PyNone
    /\ previous_app_state = PyNone
    /\ notified = 0
    /\ last_note = NoNote
    /\ poll_errors = 0
    /\ diag_logged = PyNone
    /\ final_state = PyNone
    /\ exit_code = PyNone
    /\ from_index = 0
    /\ total_printed = 0
    /\ fetches = 0
    /\ log_data = NoLogData
    /\ dscen = 0
    /\ first_terminal = 0
    /\ last_polled = <<>>
    /\ scen = 0

\* Lines 519-521: submit_batch returned the id, monitor_job is called.
StartMonitor ==
    /\ pc = "submitted"
    /\ pc' = "poll"
    /\ UNCHANGED <<exit_code, subVars, monVars, drainVars>>

\* PollOk with the status bodies of this specification.
MainPollOk ==
    /\ pc = "poll"
    /\ polls < MaxPolls
    /\ UNCHANGED subVars
    /\ polls' = polls + 1
    /\ poll_result' = "ok"
    /\ \E body \in MainBodies : HandleStatus(body)
    /\ UNCHANGED <<show_logs, poll_errors, exit_code, fetches, log_data>>

NextMain ==
    \/ FsCreate
    \/ FsDelete
    \/ ClassifyResource
    \/ ClassifyPy
    \/ ClassifyJar
    \/ Build
    \/ SubmitJson
    \/ MpOpen
    \/ MpOpenFails
    \/ MpPost
    \/ MpFinally
    \/ CheckResponse
    \/ StartMonitor
    \/ PollRaises
    \/ PollNon200
    \/ PollFalsy
    \/ MainPollOk
    \/ Sleep
    \/ FetchRaises
    \/ FetchNoData
    \/ FetchOk
    \/ MainExit

SpecMain == InitMain /\ [][NextMain]_vars

\* ------------------------------------------------------------------------
\* monitor_job with print_all_logs step by step
\* ------------------------------------------------------------------------
\* The monitor with the status bodies of MainBodies and each iteration of
\* print_all_logs in two steps, the response and its handling.
NextDrain ==
    \/ PollRaises
    \/ PollNon200
    \/ PollFalsy
    \/ MainPollOk
    \/ Sleep
    \/ FetchRaises
    \/ FetchNoData
    \/ LogResponse
    \/ PrintRows
    \/ MainExit

SpecDrain == InitMonitor /\ [][NextDrain]_vars

\* ------------------------------------------------------------------------
\* Claims about monitor_job and main's exit status
\* ------------------------------------------------------------------------
\* The snapshot monitor_job holds.
CurState == StateOf(status)
CurAppState == AppStateOf(status)
CurDiag == DiagOf(status)
HasStatus == status # NoStatus

\* The inner states main recognises.
SuccessValues == {"SUCCESS", "SUCCEEDED", "FINISHED"}
FailureValues == {"FAILED", "ERROR"}
CancelValues == {"CANCELLED"}
UnrecognisedApp(a) ==
    Truthy(a) /\ a \notin (SuccessValues \cup FailureValues \cup CancelValues)

\* C1 (as claimed): once a status poll has yielded FINISHED, ERROR or
\* CANCELLED, no further status GET is issued: the number of GETs stays the
\* number of that poll.
C1_NoPollAfterTerminal == first_terminal # 0 => polls = first_terminal

\* C2: a successful poll adds exactly one notification if the polled
\* (state, appState) pair differs from the pair of the previous successful
\* poll (or there was none) and adds none otherwise; no other step notifies;
\* after RUNNING, RUNNING, FINISHED/SUCCESS there were exactly two
\* notifications, the first for RUNNING and the last for FINISHED/SUCCESS,
\* and the exit status is 0.
SuccessfulPoll == pc = "poll" /\ polls' = polls + 1 /\ poll_result' = "ok"
C2_Differs ==
    last_polled = <<>> \/ <<StateOf(status'), AppStateOf(status')>> # last_polled
C2_NotifyOnChange ==
    /\ [][ /\ SuccessfulPoll /\ C2_Differs =>
                /\ notified' = notified + 1
                /\ last_note' = Note(StateOf(status'), AppStateOf(status'))
           /\ SuccessfulPoll /\ ~C2_Differs => notified' = notified
           /\ ~SuccessfulPoll => notified' = notified ]_vars
    /\ [](scen \in {1, 2} => notified = 1 /\ last_note.state = "RUNNING")
    /\ [](scen = 3 => notified = 2 /\ last_note = Note("FINISHED", "SUCCESS"))
    /\ [](scen = 3 /\ pc = "exit" => exit_code = 0)
C2_Witness == scen = 3 /\ pc = "exit" /\ notified = 2 /\ polls = 3

\* C3: a status poll that fails (exception or status other than 200) logs
\* the error, produces no return value and no exit status, and goes to the
\* sleep, after which the next poll follows; a later successful poll with a
\* terminal outer state returns the value derived from it (or enters the
\* log drain when show_logs is set); and whenever monitor_job has returned,
\* however many polls failed before, its value is the one derived from a
\* terminal snapshot of a successful poll.
FailedPoll ==
    pc = "poll" /\ polls' = polls + 1 /\ poll_result' \in {"raise", "non200"}
C3_FailedPollRetries ==
    /\ [][ FailedPoll =>
              /\ pc' = "sleep"
              /\ poll_errors' = poll_errors + 1
              /\ final_state' = PyNone /\ exit_code' = PyNone ]_vars
    /\ [][ pc = "sleep" => pc' = "poll" ]_vars
    /\ [][ SuccessfulPoll /\ StateOf(status') \in TerminalStates =>
              IF show_logs THEN pc' = "drain"
              ELSE /\ pc' = "returned"
                   /\ final_state' =
                         ReturnValue(StateOf(status'), AppStateOf(status')) ]_vars
    /\ [](pc \in {"returned", "exit"} =>
              /\ HasStatus /\ poll_result = "ok"
              /\ CurState \in TerminalStates
              /\ final_state = ReturnValue(CurState, CurAppState))
C3_Witness ==
    /\ pc = "exit" /\ poll_errors = 2 /\ fetches = 0
    /\ exit_code = 0 /\ polls = 3

\* C4: exit status 0 only if the terminal outer state is FINISHED and the
\* inner state is absent/empty or a success value; FINISHED with no inner
\* state gives 0; ERROR and CANCELLED never give 0.
C4_SucceededOnlyIfFinished ==
    pc = "exit" =>
        /\ exit_code = 0 =>
              /\ CurState = "FINISHED"
              /\ ~Truthy(CurAppState) \/ CurAppState \in SuccessValues
        /\ CurState = "FINISHED" /\ ~Truthy(CurAppState) => exit_code = 0
        /\ CurState \in {"ERROR", "CANCELLED"} => exit_code # 0
C4_Witness ==
    /\ pc = "exit" /\ exit_code = 0
    /\ CurState = "FINISHED" /\ status.appState = Absent

\* C5: exit status 1 whenever the terminal outer state is ERROR (whatever
\* the inner state, also none) or it is FINISHED with an inner failure
\* value; the diagnostic text of that snapshot, when present, is the text
\* logged.
C5_FailedCase ==
    \/ CurState = "ERROR"
    \/ CurState = "FINISHED" /\ CurAppState \in FailureValues
C5_FailedOnError ==
    pc = "exit" /\ C5_FailedCase =>
        /\ exit_code = 1
        /\ Truthy(CurDiag) => diag_logged = CurDiag
C5_Witness ==
    /\ pc = "exit" /\ CurState = "ERROR" /\ status.appState = Absent
    /\ exit_code = 1 /\ diag_logged = "oom"

\* C6 (as claimed): a terminal outer state with a non-empty inner state that
\* is no recognised success, failure or cancellation value gives exit
\* status 3.
C6_UnknownForAnyTerminal ==
    pc = "exit" /\ CurState \in TerminalStates /\ UnrecognisedApp(CurAppState)
        => exit_code = 3

\* C6 (amended): outer FINISHED with a non-empty unrecognised inner state
\* gives exit status 3; outer ERROR gives 1 and outer CANCELLED gives 2
\* whatever the inner state.
C6_UnknownOnlyWhenFinished ==
    pc = "exit" =>
        /\ CurState = "FINISHED" /\ UnrecognisedApp(CurAppState) => exit_code = 3
        /\ CurState = "ERROR" => exit_code = 1
        /\ CurState = "CANCELLED" => exit_code = 2
C6_Witness ==
    /\ pc = "exit" /\ CurState = "FINISHED" /\ CurAppState = "KILLED"
    /\ exit_code = 3

\* ------------------------------------------------------------------------
\* Claims about submit_batch
\* ------------------------------------------------------------------------
IsLocalEntry(e) == e.local
IsRemoteEntry(e) == ~e.local
IsResourceEntry(e) == e.kind = "resource"
IsPyEntry(e) == e.kind = "py"
IsJarEntry(e) == e.kind = "jar"
PathsOf(entries) == [k \in DOMAIN entries |-> entries[k].path]
ExpandedOf(entries) == [k \in DOMAIN entries |-> ExpandPath(entries[k].path)]
IsNonEmpty(x) == x # <<>>

\* The entries of a pyFiles / jars argument, trimmed, without the empty ones.
TrimmedEntries(aux) ==
    LET raw == IF aux.kind = "str" THEN Split(aux.val, ",") ELSE aux.val
    IN  SelectSeq([k \in DOMAIN raw |-> Strip(raw[k])], IsNonEmpty)

\* The value of a field of the request, <<>> when the key is missing.
FieldList(field) == IF field = <<>> THEN <<>> ELSE field[1]

\* The request object exists.
RequestBuilt ==
    pc \in {"json", "multipart", "mp_finally", "response", "submitted", "exit"}

\* C7 (as claimed): when the primary resource was classified Local, the JSON
\* part of the multipart POST has a resource key whose value is not empty.
C7_LocalResourceHasPlaceholder ==
    request.mode = "multipart" /\ class_log[1].local =>
        /\ request.json.resource # <<>>
        /\ request.json.resource[1] # <<>>

\* C8: at most one POST is sent; the transport is JSON exactly when no
\* is_local_file call answered Local, and then there is no upload part; a
\* multipart POST carries one part per Local answer: the resource first,
\* then the local pyFiles, then the local jars, each in input order, named
\* by base name.
C8_ExpectedUploads ==
    ExpandedOf(SelectSeq(SelectSeq(class_log, IsResourceEntry), IsLocalEntry))
    \o ExpandedOf(SelectSeq(SelectSeq(class_log, IsPyEntry), IsLocalEntry))
    \o ExpandedOf(SelectSeq(SelectSeq(class_log, IsJarEntry), IsLocalEntry))
C8_TransportFollowsClassification ==
    LET expected == C8_ExpectedUploads
    IN  /\ posts <= 1
        /\ posts = 0 <=> request = NoRequest
        /\ pc = "json" => expected = <<>>
        /\ pc \in {"multipart", "mp_finally"} => expected # <<>>
        /\ posts = 1 =>
              /\ request.mode = "json" <=> expected = <<>>
              /\ request.mode = "json" => request.parts = <<>>
              /\ request.mode # "json" =>
                    /\ request.mode = "multipart"
                    /\ PathsOf(request.parts) = expected
                    /\ \A k \in DOMAIN request.parts :
                          /\ request.parts[k].filename = Basename(expected[k])
                          /\ request.parts[k].field = "resourceFile"
                                <=> k = 1 /\ class_log[1].local
C8_Witness ==
    /\ posts = 1 /\ request.mode = "multipart"
    /\ PathsOf(request.parts) = <<P_a_py, P_a_py, P_h_d_jar, P_h_d_jar>>
    /\ request.json.pyFiles # <<>>

\* C9: once the request is built, for pyFiles and for jars alike: the
\* trimmed non-empty entries are exactly the paths classified, once each and
\* in input order; the payload list holds the entries classified Remote and
\* the upload list the entries classified Local, both in input order; so
\* every entry is in exactly one of the two and none is lost.
C9_Routed(aux, kind, payload, uploads) ==
    LET log == IF kind = "py" THEN SelectSeq(class_log, IsPyEntry)
               ELSE SelectSeq(class_log, IsJarEntry)
        trimmed == TrimmedEntries(aux)
        local == SelectSeq(log, IsLocalEntry)
    IN  /\ PathsOf(log) = trimmed
        /\ FieldList(payload) = PathsOf(SelectSeq(log, IsRemoteEntry))
        /\ Column(uploads, 1) = PathsOf(local)
        /\ Column(uploads, 2) = ExpandedOf(local)
        /\ Len(FieldList(payload)) + Len(uploads) = Len(trimmed)
C9_EveryEntryRoutedOnce ==
    RequestBuilt =>
        /\ C9_Routed(py_files, "py", batch_request.pyFiles, local_py_files)
        /\ C9_Routed(jars, "jar", batch_request.jars, local_jars)
        /\ posts = 1 =>
              /\ request.json.pyFiles = batch_request.pyFiles
              /\ request.json.jars = batch_request.jars
C9_Witness ==
    /\ pc = "submitted"
    /\ py_files = AuxStr(PyText)
    /\ FieldList(request.json.pyFiles) = <<P_s3_py>>
    /\ Column(local_py_files, 1) = <<P_a_py>>
    /\ jars = AuxStr(JarText)
    /\ FieldList(request.json.jars) = <<P_hdfs_jar>>
    /\ Column(local_jars, 2) = <<P_h_d_jar>>

\* C10: outside _submit_multipart no file handle is open: all handles are
\* closed when it has returned a response and when it has raised, be it
\* from the POST or from an open() that followed successful ones.
C10_HandlesClosed ==
    pc \notin {"multipart", "mp_finally"} => open_handles = {}
C10_Witness ==
    /\ pc = "exit" /\ raised /\ posts = 0
    /\ Len(opened_files) >= 1
    /\ open_handles = {}

\* An open() of _submit_multipart failed: the exception is propagating and
\* no POST was sent.
OpenFailed == pc = "mp_finally" /\ raised /\ posts = 0

\* C21 (as claimed): the is_local_file calls of one submit_batch call give
\* the same answer for the same path every time, although files are created
\* and deleted meanwhile; and no open() for upload fails, every path
\* classified Local being still there when it is opened.
C21_OneConsistentView ==
    /\ \A i, j \in DOMAIN class_log :
          class_log[i].path = class_log[j].path
              => class_log[i].local = class_log[j].local
    /\ ~OpenFailed

\* ------------------------------------------------------------------------
\* Claims about the whole invocation
\* ------------------------------------------------------------------------
\* The POST was answered with something other than a success carrying an id.
BadResponse ==
    response # NoResponse /\ (response.code \notin {200, 201} \/ response.id = Absent)
\* The submission is over: the response, if any, has been checked.
SubmissionOver == pc \notin {"submit", "classify_py", "classify_jars", "build",
                              "json", "multipart", "mp_finally", "response"}

\* C11: at most one POST is ever issued; once the submission is over, a
\* response that is no success or carries no id, and likewise an exception
\* from the submission, has ended the invocation with exit status 1 and no
\* status GET and no log GET has been issued; a status or log GET is only
\* ever issued after a success response with an id.
C11_FailedSubmissionIsTerminal ==
    /\ posts <= 1
    /\ SubmissionOver /\ (BadResponse \/ raised) =>
          /\ pc = "exit"
          /\ exit_code = 1
          /\ polls = 0
          /\ fetches = 0
          /\ batch_id = PyNone
    /\ polls > 0 \/ fetches > 0 =>
          /\ posts = 1
          /\ response.code \in {200, 201}
          /\ response.id # Absent
          /\ ~raised
C11_Witness ==
    /\ pc = "exit"
    /\ posts = 1
    /\ response = [code |-> 200, id |-> Absent]
    /\ show_logs
    /\ exit_code = 1
    /\ polls = 0

\* print_all_logs is entered.
DrainStarts == pc # "drain" /\ pc' = "drain"

\* C20 (as claimed): a status GET is only issued after the POST was answered
\* with a success carrying an id; a log GET only after a poll that returned
\* a terminal outer state; no log GET at all when show_logs is false; and
\* print_all_logs is entered at most once: never when a log GET has been
\* issued before.
C20_PhasesInOrder ==
    /\ [](polls > 0 =>
              /\ posts = 1
              /\ response.code \in {200, 201}
              /\ response.id # Absent)
    /\ [](fetches > 0 => first_terminal # 0)
    /\ [](~show_logs => fetches = 0)
    /\ [][ DrainStarts => fetches = 0 ]_vars

\* ------------------------------------------------------------------------
\* Claims about the request's className and conf
\* ------------------------------------------------------------------------
\* C12: once the request is built, its conf maps spark.submit.deployMode to
\* cluster, whatever the caller supplied for that key, and maps every other
\* key the caller supplied to the value supplied last for it; the POST
\* carries that conf.
C12_DeployModeForced ==
    RequestBuilt =>
        LET d == batch_request.conf
            ps == conf.pairs
        IN  /\ DeployModeKey \in DOMAIN d
            /\ d[DeployModeKey] = Cluster
            /\ \A i \in DOMAIN ps :
                  /\ ps[i][1] # DeployModeKey
                  /\ \A j \in (i + 1)..Len(ps) : ps[j][1] # ps[i][1]
                  => /\ ps[i][1] \in DOMAIN d
                     /\ d[ps[i][1]] = ps[i][2]
            /\ posts = 1 => request.json.conf = d
C12_Witness ==
    /\ pc = "submitted"
    /\ conf = ConfOverride
    /\ request.json.conf[DeployModeKey] = Cluster
    /\ request.json.conf[<<"a">>] = <<"2", "=", "3">>

\* The primary resources whose extension makes the job a pyspark job.
InterpretedResources == {P_a_py, P_s3a_py}

\* C19: once the request is built it has a className exactly when a
\* non-empty class name was given and the resource is not a Python one, and
\* then it is the name given; for the remote jar s3a://b/c.jar with class
\* com.x.Main and no pyFiles and jars the POST is a JSON one with that
\* resource and that className and without upload parts.
C19_ClassNameOnlyForJvmJobs ==
    /\ RequestBuilt =>
          /\ batch_request.batchType = "pyspark"
                <=> resource \in InterpretedResources
          /\ batch_request.className # <<>>
                <=> /\ classname \notin {PyNone, ""}
                    /\ resource \notin InterpretedResources
          /\ batch_request.className # <<>>
                => batch_request.className = <<classname>>
    /\ /\ posts = 1
       /\ resource = P_s3a_jar /\ classname = "com.x.Main"
       /\ py_files = NoAux /\ jars = NoAux
       => /\ request.mode = "json"
          /\ request.json.resource = <<P_s3a_jar>>
          /\ request.json.className = <<"com.x.Main">>
          /\ request.parts = <<>>
C19_Witness ==
    /\ pc = "submitted"
    /\ resource = P_s3a_jar /\ classname = "com.x.Main"
    /\ py_files = NoAux /\ jars = NoAux
    /\ P_a_py \in files
    /\ request.mode = "json"
    /\ request.json.className = <<"com.x.Main">>

\* ------------------------------------------------------------------------
\* Claims about print_all_logs
\* ------------------------------------------------------------------------
\* A localLog body is being handled.
HandlingRows == pc = "rows"
\* The window handled ends before the total of the same response.
BelowTotal == from_index + log_data.rows < log_data.total

\* C13: every response handled adds its rows to the output; the loop goes on,
\* from the offset moved by the rows returned, exactly when offset + rows
\* returned is below the total of that same response, and returns otherwise;
\* against a server holding 2500 lines that answers with at most 1000 lines
\* the call is still running after the first and the second response, at
\* offsets 1000 and 2000, and has returned after the third with 2500 lines
\* output, so that there is no fourth request.
C13_FetchesWhileBelowTotal ==
    /\ [][ HandlingRows =>
              /\ total_printed' = total_printed + log_data.rows
              /\ BelowTotal =>
                    pc' = "drain" /\ from_index' = from_index + log_data.rows
              /\ ~BelowTotal => pc' = "returned" ]_vars
    /\ [](dscen \in {1, 2} =>
              /\ pc \in {"drain", "rows"}
              /\ from_index = 1000 * dscen
              /\ total_printed = 1000 * dscen)
    /\ [](dscen >= 3 =>
              /\ dscen = 3
              /\ pc \in {"returned", "exit"}
              /\ total_printed = 2500)
C13_Witness ==
    /\ dscen = 3
    /\ pc = "exit"
    /\ total_printed = 2500
    /\ fetches = 3

\* C14 (as claimed): a response that returns no line while its total is
\* beyond the current offset ends the pagination: the same offset is not
\* requested again.
C14_EmptyWindowEndsDrain ==
    [][ HandlingRows /\ log_data.rows = 0 /\ log_data.total > from_index =>
           pc' # "drain" ]_vars

\* A log GET that yields no body: the response is not 200 or the request
\* raises.
FailedFetch == pc = "drain" /\ fetches' = fetches + 1 /\ pc' # "rows"

\* C15 (as claimed): a log GET that fails ends the pagination without
\* touching the lines already output, and monitor_job returns the outcome
\* derived from the terminal snapshot it holds.
C15_DrainFailureKeepsOutcome ==
    [][ FailedFetch =>
           /\ pc' = "returned"
           /\ final_state' = ReturnValue(CurState, CurAppState)
           /\ total_printed' = total_printed ]_vars

\* print_all_logs is running: it is about to request the window at
\* from_index, or is handling the response to that request.
InDrain == pc \in {"drain", "rows"}
\* monitor_job calls print_all_logs.
DrainCalled == ~InDrain /\ pc' = "drain"

\* C22: within one print_all_logs call the first request uses offset 0 and
\* each later one the previous offset plus the number of rows the previous
\* response returned, so the offsets never decrease; and the offset of
\* every request equals the number of lines output so far in the call, so
\* that with a server that answers a request at offset o with the lines
\* from o on, the output is the log's prefix without gap or repetition,
\* also when a response holds fewer rows than the window asked for.
C22_OffsetsContiguous ==
    /\ [][ DrainCalled => from_index' = 0 /\ total_printed' = 0 ]_vars
    /\ [][ InDrain /\ pc' \in {"drain", "rows"} =>
              /\ from_index' >= from_index
              /\ from_index' =
                    from_index + (IF HandlingRows THEN log_data.rows ELSE 0) ]_vars
    /\ [](InDrain => from_index = total_printed)
C22_Witness ==
    /\ pc = "rows"
    /\ polls = 1
    /\ fetches = 3
    /\ from_index = 1500
    /\ total_printed = 1500
    /\ log_data.rows = 500

\* ------------------------------------------------------------------------
\* Claims about the duration of monitor_job
\* ------------------------------------------------------------------------
\* When monitor_job is about to poll, it has slept once per poll made: at
\* least this many seconds have passed since it was called.
ElapsedAtLeast == SleepSeconds * polls

\* C16 (as claimed), for a caller who asks for a bound of 15 seconds: once
\* more than 15 seconds have passed monitor_job is no longer polling, it has
\* ended.
C16_TimeoutEndsMonitoring ==
    LET timeout == 15
    IN  ElapsedAtLeast > timeout => pc # "poll"

\* ------------------------------------------------------------------------
\* Claims about is_local_file
\* ------------------------------------------------------------------------
AllRemote == \A i \in DOMAIN answers : ~answers[i].local

\* C17: every answer for a path whose scheme is in REMOTE_SCHEMES, whatever
\* the case it is written in, is Remote, also when a regular file exists at
\* the path; so is every answer for a path with any other scheme of more
\* than one character; hence an answer Local is only ever given for a path
\* without scheme or with a one-letter scheme.
C17_SchemeMeansRemote ==
    LET scheme == UrlScheme(call_path)
    IN  /\ Lower(scheme) \in REMOTE_SCHEMES => AllRemote
        /\ Len(scheme) > 1 => AllRemote
        /\ ~AllRemote => Len(scheme) <= 1
C17_Witness ==
    /\ call_path = P_hdfs_jar
    /\ Len(answers) >= 1
    /\ answers[1] = [local |-> FALSE, existed |-> TRUE]

\* C18: every answer for a path without scheme is Local exactly when a
\* regular file existed at the expanded path at that call: Local while the
\* file is there, Remote after it was deleted, Local again after it was
\* created again.
C18_AnswerFollowsFilesystem ==
    UrlScheme(call_path) = <<>> =>
        \A i \in DOMAIN answers : answers[i].local = answers[i].existed
C18_Witness ==
    /\ call_path = P_home_jar
    /\ answers = <<[local |-> TRUE, existed |-> TRUE],
                   [local |-> FALSE, existed |-> FALSE],
                   [local |-> TRUE, existed |-> TRUE]>>

====
